---- MODULE Spec2Model ----
(***************************************************************************)
(* Model of the object store and incremental serializer of PDFKit          *)
(* (src/js/pdfkit.es5.js): PDFReference, PDFPage, PDFDocument and the      *)
(* parts of the font, image, annotation and outline mixins that allocate   *)
(* and end indirect objects.                                               *)
(*                                                                         *)
(* Bytes are abstracted to their number: a chunk pushed to the readable    *)
(* stream is a record [k, id, v, n] holding what the chunk is (k), the     *)
(* object it belongs to (id), the value it prints (v) and its length in    *)
(* bytes (n).  JavaScript runs one synchronous unit of work at a time:     *)
(* inTurn is TRUE while caller code runs, and the callbacks given to       *)
(* setTimeout and to the asynchronous zlib/PNG functions run only between  *)
(* two such units, timers in the order they were scheduled.                *)
(***************************************************************************)
EXTENDS Integers, Sequences, FiniteSets, TLC

\* ------------------------------------------------------------------ bounds
MaxObjs == 10
MaxOps == 2
MaxDocEnds == 2
MaxImages == 1

\* sizes of the chunks handed to write()/addContent() and to ref.end(chunk)
ChunkSizes == {3}

\* --------------------------------------------------------------- constants
\* the placeholder that ref() pushes for an offset that is not yet known
Null == -1
\* no page / no object
NoRef == 0

VARIABLES
  objs,              \* the PDFReference objects, indexed by id
  _offsets,          \* PDFDocument._offsets
  _waiting,          \* PDFDocument._waiting
  _ended,            \* PDFDocument._ended
  _offset,           \* PDFDocument._offset
  sink,              \* the chunks pushed to the readable stream, in order
  closed,            \* number of push(null) calls
  timers,            \* finalize callbacks scheduled with setTimeout(fn, 0)
  _pageBuffer,       \* PDFDocument._pageBuffer
  _pageBufferStart,  \* PDFDocument._pageBufferStart
  page,              \* PDFDocument.page
  Pages,             \* the data of the page tree object: Count and Kids
  font,              \* the current font: its dictionary and embedded flag
  _info,             \* PDFDocument._info
  images,            \* PNG images whose alpha channel is still being split
  opts,              \* the constructor options
  named,             \* the ids of the page tree, the catalog and the outline
  inTurn,            \* a synchronous unit of caller code is running
  hist,              \* bookkeeping: counters of the calls made so far, the
                     \* last Error thrown to the caller and the text of
                     \* the last text() call
  x,                 \* PDFDocument.x
  y,                 \* PDFDocument.y
  _wrapper,          \* PDFDocument._wrapper
  _textOptions,      \* PDFDocument._textOptions
  style,             \* the options the caller passes to text()
  wrapper,           \* the LineWrapper the last text() call used
  lines,             \* the 'line' events the last text() call delivered
  words              \* the words eachWord handed to the callback of wrap

vars == << objs, _offsets, _waiting, _ended, _offset, sink, closed, timers,
           _pageBuffer, _pageBufferStart, page, Pages, font, _info, images,
           opts, named, inTurn, hist, x, y, _wrapper, _textOptions, style,
           wrapper, lines, words >>

\* ------------------------------------------------------------ pure helpers
RECURSIVE Digits(_)
\* number of characters of '' + n for a non-negative integer n
Digits(n) == IF n < 10 THEN 1 ELSE 1 + Digits(n \div 10)

\* number of characters of '' + offset, where offset may be null
OffsetChars(off) == IF off = Null THEN 4 ELSE Digits(off)

\* length of ('0000000000' + offset).slice(-10)
Pad10Len(off) ==
  LET total == 10 + OffsetChars(off) IN IF total < 10 THEN total ELSE 10

\* what ('0000000000' + offset).slice(-10) prints: the offset behind
\* leading zeros while it has at most ten digits (every offset of the model
\* has), and the characters '000000null' for a null offset, kept as Null
Pad10Val(off) == IF off = Null \/ OffsetChars(off) <= 10 THEN off ELSE Null

Chunk(k, id, v, n) == [k |-> k, id |-> id, v |-> v, n |-> n]

RECURSIVE BytesOf(_, _)
\* total number of bytes of the first j chunks of a sequence
BytesOf(cs, j) == IF j = 0 THEN 0 ELSE cs[j].n + BytesOf(cs, j - 1)

\* total number of bytes of a sequence of chunks
SumLen(cs) == BytesOf(cs, Len(cs))

\* zlib.deflateSync(buffer).length: the deflated size depends on the bytes,
\* which the model does not keep; a stored block costs 11 bytes of framing,
\* compressible data comes out shorter
DeflateSizes(n) == { n + 11, (n \div 2) + 11 }

\* length of the entries that the data of an object of each kind holds
\* besides Length and Filter, as PDFObject.convert prints them: '\n/Key value'
\* per entry, references to ids of one digit
EntriesLen(kind) ==
  CASE kind = "catalog"   -> 15 + 13
    [] kind = "resources" -> 46
    [] kind = "page"      -> 12 + 14 + 24 + 16 + 17
    [] kind = "info"      -> 19 + 18 + 34
    [] kind = "font"      -> 12 + 21 + 16 + 27
    [] kind = "image"     -> 15 + 16 + 20 + 9 + 10 + 21 + 23 + 13
    [] kind = "smask"     -> 15 + 16 + 10 + 9 + 20 + 21 + 24 + 14
    [] OTHER              -> 0

\* PDFObject.convert(ref.data).length + 1 (the newline _write appends)
ConvertLen(o) ==
  2 + EntriesLen(o.kind)
    + (IF o.Length # Null THEN 9 + Digits(o.Length) ELSE 0)
    + (IF o.Filter /\ o.kind \notin {"image", "smask"} THEN 21 ELSE 0)
    + 3 + 1

\* ----------------------------------------------------------- the state
\* the program state as one record, so that calls compose
St == [ objs |-> objs, _offsets |-> _offsets, _waiting |-> _waiting,
        _ended |-> _ended, _offset |-> _offset, sink |-> sink,
        closed |-> closed, timers |-> timers, _pageBuffer |-> _pageBuffer,
        _pageBufferStart |-> _pageBufferStart, page |-> page,
        Pages |-> Pages, font |-> font,
        _info |-> _info, images |-> images, opts |-> opts, named |-> named,
        hist |-> hist, x |-> x, y |-> y, _wrapper |-> _wrapper,
        _textOptions |-> _textOptions, style |-> style, wrapper |-> wrapper,
        lines |-> lines, words |-> words ]

Commit(S) ==
  /\ objs' = S.objs
  /\ _offsets' = S._offsets
  /\ _waiting' = S._waiting
  /\ _ended' = S._ended
  /\ _offset' = S._offset
  /\ sink' = S.sink
  /\ closed' = S.closed
  /\ timers' = S.timers
  /\ _pageBuffer' = S._pageBuffer
  /\ _pageBufferStart' = S._pageBufferStart
  /\ page' = S.page
  /\ Pages' = S.Pages
  /\ font' = S.font
  /\ _info' = S._info
  /\ images' = S.images
  /\ opts' = S.opts
  /\ named' = S.named
  /\ hist' = S.hist
  /\ x' = S.x
  /\ y' = S.y
  /\ _wrapper' = S._wrapper
  /\ _textOptions' = S._textOptions
  /\ style' = S.style
  /\ wrapper' = S.wrapper
  /\ lines' = S.lines
  /\ words' = S.words

\* ------------------------------------------------------------ PDFDocument
\* _write with a counter that advances by the uncompressed size of a stream
_write_uncompressed(S, c) ==
  [S EXCEPT !.sink = Append(@, c),
            !._offset = @ + (IF c.k = "data" THEN c.v ELSE c.n)]

\* PDFDocument._write: push the chunk and advance the byte counter
_write(S, c) == [S EXCEPT !.sink = Append(@, c), !._offset = @ + c.n]

RECURSIVE WriteSeq(_, _)
\* consecutive _write calls
WriteSeq(S, cs) ==
  IF cs = << >> THEN S ELSE WriteSeq(_write(S, cs[1]), Tail(cs))

\* new PDFReference(document, id, data)
NewRef(S, id, kind, filter) ==
  [ kind |-> kind,
    compress |-> S.opts.compress /\ ~filter,
    Filter |-> filter,
    Length |-> Null,
    uncompressedLength |-> 0,
    chunks |-> 0,
    bytes |-> 0,
    offset |-> Null,
    fin |-> 0,
    afterEnd |-> FALSE,
    late |-> FALSE ]

\* PDFDocument.ref
ref(S, kind, filter) ==
  [S EXCEPT !.objs = Append(@, NewRef(S, Len(S._offsets) + 1, kind, filter)),
            !._offsets = Append(@, Null),
            !._waiting = @ + 1]

\* the id that the next ref() call hands out
NextId(S) == Len(S._offsets) + 1

\* the loop of _finalize stopping one entry early
XrefLines_short(S) ==
  [ i \in 1..(Len(S._offsets) - 1) |->
      Chunk("line", 0, Pad10Val(S._offsets[i]), Pad10Len(S._offsets[i]) + 10) ]

\* the lines of the cross-reference table, one per entry of _offsets
XrefLines(S) ==
  [ i \in 1..Len(S._offsets) |->
      Chunk("line", 0, Pad10Val(S._offsets[i]), Pad10Len(S._offsets[i]) + 10) ]

\* PDFDocument._finalize
_finalize(S) ==
  LET xRefOffset == S._offset
      size == Len(S._offsets) + 1
      head == << Chunk("xref", 0, 0, 5),
                 Chunk("subsection", 0, size, 2 + Digits(size) + 1),
                 Chunk("free", 0, 0, 20) >>
      tail == << Chunk("trailer", 0, 0, 8),
                 Chunk("trailerdict", 0, size,
                       2 + (7 + Digits(size)) + 13 + (11 + Digits(S._info)) + 3 + 1),
                 Chunk("startxref", 0, 0, 10),
                 Chunk("xrefoffset", 0, xRefOffset, Digits(xRefOffset) + 1),
                 Chunk("eof", 0, 0, 6) >>
      S1 == WriteSeq(S, head \o XrefLines(S) \o tail)
  IN [S1 EXCEPT !.closed = @ + 1]

\* _refEnd storing the offsets in the order the objects are emitted
_refEnd_byEmission(S, id) ==
  LET S1 == [S EXCEPT !._offsets[Len(S._offsets) - S._waiting + 1] =
                          S.objs[id].offset,
                      !._waiting = @ - 1]
  IN IF S1._waiting = 0 /\ S1._ended
       THEN [_finalize(S1) EXCEPT !._ended = FALSE]
       ELSE S1

\* _refEnd finalizing the document as soon as it has ended
_refEnd_noCount(S, id) ==
  LET S1 == [S EXCEPT !._offsets[id] = S.objs[id].offset,
                      !._waiting = @ - 1]
  IN IF S1._ended
       THEN [_finalize(S1) EXCEPT !._ended = FALSE]
       ELSE S1

\* PDFDocument._refEnd
_refEnd(S, id) ==
  LET S1 == [S EXCEPT !._offsets[id] = S.objs[id].offset,
                      !._waiting = @ - 1]
  IN IF S1._waiting = 0 /\ S1._ended
       THEN [_finalize(S1) EXCEPT !._ended = FALSE]
       ELSE S1

\* ----------------------------------------------------------- PDFReference
\* PDFReference.write
write(S, id, n) ==
  LET o == S.objs[id] IN
  [S EXCEPT !.objs[id] =
     [o EXCEPT !.uncompressedLength = @ + n,
               !.Length = (IF @ = Null THEN 0 ELSE @) + n,
               !.chunks = @ + 1,
               !.bytes = @ + n,
               !.Filter = IF o.compress THEN TRUE ELSE @,
               !.afterEnd = @ \/ (\E t \in 1..Len(S.timers) : S.timers[t] = id),
               !.late = @ \/ o.fin > 0]]

\* the callback PDFReference.finalize hands to setTimeout; z is the size
\* zlib.deflateSync returns for the buffer
FinalizeBody(S, id, z) ==
  LET o == S.objs[id]
      S0 == [S EXCEPT !.objs[id].offset = S._offset]
      S1 == _write(S0, Chunk("obj", id, 0, Digits(id) + 7))
      S2 == _write(S1, Chunk("dict", id, o.Length, ConvertLen(o)))
      out == IF o.compress THEN z ELSE o.bytes
      S3 == IF o.chunks > 0
              THEN LET W == WriteSeq(S2, << Chunk("stream", id, 0, 7),
                                            Chunk("data", id, o.bytes, out),
                                            Chunk("endstream", id, 0, 11) >>)
                   IN [W EXCEPT !.objs[id].Length =
                                    IF o.compress THEN out ELSE @,
                                !.objs[id].chunks = 0,
                                !.objs[id].bytes = 0]
              ELSE S2
      S4 == _write(S3, Chunk("endobj", id, 0, 7))
      S5 == [S4 EXCEPT !.objs[id].fin = @ + 1]
  IN _refEnd(S5, id)

RECURSIVE KidsBytes(_)
\* Buffer.concat(Kids).length: each kid is the buffer of '<id> 0 R '
KidsBytes(ks) ==
  IF ks = << >> THEN 0 ELSE Digits(ks[1]) + 5 + KidsBytes(Tail(ks))

\* the length of '/Kids [' + Buffer.concat(Kids).slice(0, -1) + ']' + '\n'
KidsLen(kids) ==
  LET all == KidsBytes(kids)
  IN 7 + (IF all = 0 THEN 0 ELSE all - 1) + 1 + 1

\* the finalize that the constructor installs on the Pages object: it is
\* not deferred
PagesFinalize(S, id) ==
  LET S0 == [S EXCEPT !.objs[id].offset = S._offset]
      S1 == WriteSeq(S0,
              << Chunk("obj", id, 0, Digits(id) + 7),
                 Chunk("dict", id, Null, 3),
                 Chunk("dict", id, Null, 13),
                 Chunk("dict", id, S.Pages.Count, 7 + Digits(S.Pages.Count) + 1),
                 Chunk("dict", id, Len(S.Pages.Kids), KidsLen(S.Pages.Kids)),
                 Chunk("dict", id, Null, 3),
                 Chunk("endobj", id, 0, 7) >>)
      S2 == [S1 EXCEPT !.objs[id].fin = @ + 1]
  IN _refEnd(S2, id)

\* finalize without setTimeout
finalize_sync(S, id) ==
  IF S.objs[id].kind = "pages"
    THEN PagesFinalize(S, id)
    ELSE FinalizeBody(S, id, S.objs[id].bytes + 11)

\* PDFReference.finalize, or the override installed on the object
finalize(S, id) ==
  IF S.objs[id].kind = "pages"
    THEN PagesFinalize(S, id)
    ELSE [S EXCEPT !.timers = Append(@, id)]

\* PDFReference.end(chunk); n = 0 stands for a call without chunk
end(S, id, n) == finalize(IF n > 0 THEN write(S, id, n) ELSE S, id)

\* ---------------------------------------------------------------- PDFPage
\* the page the caller asks for: size [PageWidth, PageHeight], all four
\* margins Margin
PageHeight == 30
Margin == 10

NoPage == [dictionary |-> NoRef, resources |-> NoRef, content |-> NoRef]

\* new PDFPage(document, options): content, resources and dictionary
NewPage(S) ==
  LET c == NextId(S)
      S1 == ref(ref(ref(S, "content", FALSE), "resources", FALSE), "page", FALSE)
  IN [ S |-> S1,
       p |-> [dictionary |-> c + 2, resources |-> c + 1, content |-> c] ]

\* PDFPage.end
PageEnd(S, p) == end(end(end(S, p.dictionary, 0), p.resources, 0), p.content, 0)

RECURSIVE EndPages(_, _)
\* the loop of flushPages: page.end() for every page that was buffered
EndPages(S, ps) ==
  IF ps = << >> THEN S ELSE EndPages(PageEnd(S, ps[1]), Tail(ps))

\* flushPages leaving the start of the window where it was
flushPages_keepStart(S) ==
  LET ps == S._pageBuffer
      S1 == [S EXCEPT !._pageBuffer = << >>]
  IN EndPages(S1, ps)

\* PDFDocument.flushPages
flushPages(S) ==
  LET ps == S._pageBuffer
      S1 == [S EXCEPT !._pageBuffer = << >>,
                      !._pageBufferStart = @ + Len(ps)]
  IN EndPages(S1, ps)

\* PDFDocument.bufferedPageRange
bufferedPageRange(S) ==
  [start |-> S._pageBufferStart, count |-> Len(S._pageBuffer)]

\* switchToPage with a message that names one page too many
switchToPage_offByOne(S, n) ==
  LET i == n - S._pageBufferStart IN
  IF i >= 0 /\ i < Len(S._pageBuffer)
    THEN [S EXCEPT !.page = S._pageBuffer[i + 1]]
    ELSE [S EXCEPT !.hist.thrown =
            << [n |-> n, from |-> S._pageBufferStart,
                to |-> S._pageBufferStart + Len(S._pageBuffer)] >>]

\* PDFDocument.switchToPage: _pageBuffer[n - _pageBufferStart] of the
\* zero-based JavaScript array, or the Error thrown when there is none
switchToPage(S, n) ==
  LET i == n - S._pageBufferStart IN
  IF i >= 0 /\ i < Len(S._pageBuffer)
    THEN [S EXCEPT !.page = S._pageBuffer[i + 1]]
    ELSE [S EXCEPT !.hist.thrown =
            << [n |-> n, from |-> S._pageBufferStart,
                to |-> S._pageBufferStart + Len(S._pageBuffer) - 1] >>]

\* addPage that keeps the pages it already buffers
addPage_noFlush(S) ==
  LET np == NewPage(S)
  IN [np.S EXCEPT !.page = np.p,
                  !._pageBuffer = Append(@, np.p),
                  !.Pages = [Count |-> @.Count + 1,
                             Kids |-> Append(@.Kids, np.p.dictionary)],
                  !.x = Margin,
                  !.y = Margin]

\* PDFDocument.addPage
addPage(S) ==
  LET S1 == IF ~S.opts.bufferPages THEN flushPages(S) ELSE S
      np == NewPage(S1)
  IN [np.S EXCEPT !.page = np.p,
                  !._pageBuffer = Append(@, np.p),
                  !.Pages = [Count |-> @.Count + 1,
                             Kids |-> Append(@.Kids, np.p.dictionary)],
                  !.x = Margin,
                  !.y = Margin]

\* PDFFont.finalize with StandardFont.embed
FontFinalize(S) ==
  IF S.font.embedded \/ S.font.dictionary = NoRef
    THEN S
    ELSE [end(S, S.font.dictionary, 0) EXCEPT !.font.embedded = TRUE]

\* PDFDocument.end; the outline has no items, so endOutline ends its
\* dictionary only
DocumentEnd(S) ==
  LET S1 == flushPages(S)
      info == NextId(S1)
      S2 == [ref(S1, "info", FALSE) EXCEPT !._info = info]
      S3 == end(S2, info, 0)
      S4 == FontFinalize(S3)
      S5 == end(S4, S4.named.outline, 0)
      S6 == end(S5, S5.named._root, 0)
      S7 == end(S6, S6.named.Pages, 0)
  IN IF S7._waiting = 0 THEN _finalize(S7) ELSE [S7 EXCEPT !._ended = TRUE]

\* AnnotationsMixin.annotate: the annotation is allocated, added to the
\* Annots of the page and ended at once
annotate(S) == end(ref(S, "annot", FALSE), NextId(S), 0)

\* PNGImage.finalize that ends the soft mask and leaves the image open
ImageFinalize_noObjEnd(S, obj, n) ==
  end(ref(S, "smask", TRUE), NextId(S), n)

\* PNGImage.finalize, reached from the last zlib.deflate callback of
\* splitAlphaChannel: the soft mask is allocated here
ImageFinalize(S, obj, n) ==
  LET sMask == NextId(S)
      S1 == ref(S, "smask", TRUE)
      S2 == end(S1, sMask, n)
  IN end(S2, obj, n)

\* ------------------------------------------------------------------- text
\* PDFFont.lineHeight(size, true) of the current font at the current size
LineHeight == 10

\* the advance widths of the glyphs of the current font at the current size;
\* "..." is the glyph of the ellipsis character
GlyphWidth(c) ==
  CASE c = "a"   -> 10
    [] c = " "   -> 10
    [] c = "W"   -> 90
    [] c = "\n"  -> 0
    [] c = "..." -> 10

\* the ellipsis option: absent, or the ellipsis character
NoEllipsis == << >>
Ellipsis == << "..." >>

RECURSIVE GlyphSum(_, _)
\* the sum of the advances of the first j glyphs of a string
GlyphSum(str, j) == IF j = 0 THEN 0 ELSE GlyphWidth(str[j]) + GlyphSum(str, j - 1)

\* TextMixin.widthOfString(string, options)
widthOfString(str, characterSpacing) ==
  GlyphSum(str, Len(str)) + characterSpacing * (Len(str) - 1)

\* LineWrapper.wordWidth
wordWidth(lw, word) ==
  widthOfString(word, lw.characterSpacing) + lw.characterSpacing + lw.wordSpacing

Min2(a, b) == IF a < b THEN a ELSE b
Max2(a, b) == IF a > b THEN a ELSE b

\* String.prototype.slice(from, to): a negative index counts from the end
Slice(str, from, to) ==
  LET n == Len(str)
      f == IF from < 0 THEN Max2(n + from, 0) ELSE Min2(from, n)
      t == IF to < 0 THEN Max2(n + to, 0) ELSE Min2(to, n)
  IN IF f >= t THEN << >> ELSE SubSeq(str, f + 1, t)

\* Math.ceil(a / (b / c)) for b > 0 and c > 0
CeilDiv(a, b, c) == 0 - ((0 - (a * c)) \div b)

IsSpace(c) == c \in {" ", "\n"}

RECURSIVE TrimEnd(_)
\* str.replace(/\s+$/, '')
TrimEnd(str) ==
  IF str # << >> /\ IsSpace(str[Len(str)])
    THEN TrimEnd(SubSeq(str, 1, Len(str) - 1))
    ELSE str

\* the kind of break LineBreaker.nextBreak reports behind position p of the
\* text: a required one behind a newline that is not the last character, an
\* optional one behind the spaces that precede a word and at the end of the
\* text, none elsewhere
BreakKind(text, p) ==
  IF p = Len(text) THEN "optional"
  ELSE IF text[p] = "\n" THEN "required"
  ELSE IF text[p] = " " /\ ~IsSpace(text[p + 1]) THEN "optional"
  ELSE "none"

\* the breaks of a text in the order breaker.nextBreak() returns them
Breaks(text) ==
  SelectSeq([p \in 1..Len(text) |->
               [position |-> p, required |-> BreakKind(text, p) = "required"]],
            LAMBDA b : BreakKind(text, b.position) # "none")

\* TextMixin._initOptions for a call text(text, options): the options of the
\* call extended with those of the continued run
_initOptions(S, continued) ==
  IF S._textOptions # << >>
    THEN [S._textOptions[1] EXCEPT !.continued = continued]
    ELSE [ continued |-> continued, width |-> S.style.width,
           align |-> S.style.align, indent |-> S.style.indent,
           height |-> S.style.height, ellipsis |-> S.style.ellipsis,
           columns |-> S.style.columns, columnGap |-> 18,
           textWidth |-> Null, wordCount |-> Null, lineWidth |-> Null ]

\* new LineWrapper(document, options); once holds the listeners that the
\* firstLine and lastLine handlers registered for the next 'line' event,
\* line is the listener that _text registers with wrapper.on('line')
NewLineWrapper(S, options) ==
  LET columns == IF options.columns = 0 THEN 1 ELSE options.columns
      lineWidth == (options.width - options.columnGap * (columns - 1)) \div columns
  IN [ indent |-> options.indent,
       characterSpacing |-> 0,
       wordSpacing |-> 0,
       columns |-> columns,
       columnGap |-> options.columnGap,
       lineWidth |-> lineWidth,
       spaceLeft |-> lineWidth,
       startX |-> S.x,
       startY |-> S.y,
       column |-> 1,
       ellipsis |-> options.ellipsis,
       continuedX |-> 0,
       height |-> options.height,
       maxY |-> IF options.height # Null THEN S.y + options.height
                                          ELSE PageHeight - Margin,
       lastLine |-> FALSE,
       once |-> << >>,
       line |-> "_line" ]

RECURSIVE Writes(_, _, _)
\* k consecutive addContent calls
Writes(S, id, k) ==
  IF k = 0 THEN S ELSE Writes(write(S, id, 3), id, k - 1)

\* TextMixin._fragment: nothing for a text that is empty once its newlines
\* are removed; otherwise the font is added to the page and the operators
\* q, cm, BT, Tm, Tf, TJ, ET and Q are written to the page
_fragment(S, text) ==
  IF \A i \in 1..Len(text) : text[i] = "\n"
    THEN S
    ELSE LET S1 == IF S.font.dictionary = NoRef
                     THEN [ref(S, "font", FALSE) EXCEPT
                             !.font.dictionary = NextId(S)]
                     ELSE S
         IN Writes(S1, S1.page.content, 8)

\* the state of one wrap call: the document, the wrapper, the options object
\* and the locals buffer, textWidth, wc, lc and y; ell and noRoom record
\* that the ellipsis block ran for the current word and that nextSection
\* returned false, start where the document and the wrapper were when the
\* call began, chopped and rest that the current word is a piece of a
\* longer word and what remains of that word behind it
Call(S, lw, options) ==
  [ S |-> S, lw |-> lw, o |-> options, buffer |-> << >>, textWidth |-> 0,
    wc |-> 0, lc |-> 0, y |-> S.y, ell |-> FALSE, noRoom |-> FALSE,
    chopped |-> FALSE, rest |-> << >>,
    start |-> [ x |-> S.x, y |-> S.y, column |-> lw.column,
                pages |-> S.Pages.Count, maxY |-> lw.maxY,
                startY |-> lw.startY ] ]

\* the listener registered by the firstLine handler with once('line')
OnceFirst(C, h) ==
  LET C1 == [C EXCEPT !.S.x = @ - h.indent, !.lw.lineWidth = @ + h.indent]
      C2 == IF C1.o.continued /\ C1.lw.continuedX = 0
              THEN [C1 EXCEPT !.lw.continuedX = C1.lw.indent]
              ELSE C1
  IN IF ~C2.o.continued THEN [C2 EXCEPT !.lw.continuedX = 0] ELSE C2

\* the listener registered by the lastLine handler with once('line')
OnceLast(C, h) == [C EXCEPT !.o.align = h.align, !.lw.lastLine = FALSE]

RECURSIVE RunOnce(_, _)
\* the once listeners of a 'line' event, in the order they were registered
RunOnce(C, hs) ==
  IF hs = << >> THEN C
  ELSE RunOnce(IF hs[1].on = "firstLine" THEN OnceFirst(C, hs[1])
                                          ELSE OnceLast(C, hs[1]),
               Tail(hs))

\* the firstLine handler of the constructor
firstLine(C) ==
  LET indent == IF C.lw.continuedX # 0 THEN C.lw.continuedX ELSE C.lw.indent
  IN [C EXCEPT !.S.x = @ + indent,
               !.lw.lineWidth = @ - indent,
               !.lw.once = Append(@, [on |-> "firstLine", indent |-> indent,
                                       align |-> "left"])]

\* the lastLine handler that forgets to restore the alignment
lastLine_noRestore(C) ==
  [C EXCEPT !.o.align = IF @ = "justify" THEN "left" ELSE @,
            !.lw.lastLine = TRUE]

\* the lastLine handler of the constructor
lastLine(C) ==
  [C EXCEPT !.o.align = IF @ = "justify" THEN "left" ELSE @,
            !.lw.lastLine = TRUE,
            !.lw.once = Append(@, [on |-> "lastLine", indent |-> 0,
                                    align |-> C.o.align])]

RECURSIVE PendingIndent(_, _)
\* the indent that the first j pending listeners will give back
PendingIndent(hs, j) ==
  IF j = 0 THEN 0 ELSE hs[j].indent + PendingIndent(hs, j - 1)

\* emitLine of wrap, with the listeners of the 'line' event: _line first,
\* then the once listeners; at names the call site
emitLine(C, at, required) ==
  LET o1 == [C.o EXCEPT !.textWidth = C.textWidth + C.lw.wordSpacing * (C.wc - 1),
                        !.wordCount = C.wc,
                        !.lineWidth = C.lw.lineWidth]
      ev == [ text |-> C.buffer, align |-> o1.align,
              textWidth |-> o1.textWidth, wordCount |-> o1.wordCount,
              lineWidth |-> o1.lineWidth, x |-> C.S.x, y |-> C.S.y,
              indent |-> C.S.x - C.lw.startX
                           - (Min2(C.lw.column, C.lw.columns) - 1)
                               * (o1.lineWidth + PendingIndent(C.lw.once, Len(C.lw.once))
                                    + C.lw.columnGap),
              column |-> C.lw.column, at |-> at, required |-> required,
              ell |-> C.ell, noRoom |-> C.noRoom,
              pages |-> C.S.Pages.Count,
              startY |-> C.lw.startY, maxY |-> C.lw.maxY,
              start |-> C.start ]
      S1 == [(IF C.lw.line = "_line" THEN _fragment(C.S, C.buffer) ELSE C.S)
               EXCEPT !.y = @ + LineHeight, !.lines = Append(@, ev)]
      C1 == [C EXCEPT !.S = S1, !.o = o1, !.y = C.S.y]
      C2 == RunOnce(C1, C1.lw.once)
  IN [C2 EXCEPT !.lw.once = << >>, !.lc = @ + 1]

\* LineWrapper.nextSection that forgets the gap between the columns
nextSection_noGap(C) ==
  IF C.lw.column + 1 > C.lw.columns
    THEN IF C.lw.height # Null
           THEN [ C |-> [C EXCEPT !.lw.column = @ + 1, !.noRoom = TRUE],
                  ok |-> FALSE ]
           ELSE [ C |-> [C EXCEPT !.S = [addPage(C.S) EXCEPT !.x = C.lw.startX],
                                  !.lw.column = 1,
                                  !.lw.startY = Margin,
                                  !.lw.maxY = PageHeight - Margin],
                  ok |-> TRUE ]
    ELSE [ C |-> [C EXCEPT !.lw.column = @ + 1,
                           !.S.x = @ + C.lw.lineWidth,
                           !.S.y = C.lw.startY],
           ok |-> TRUE ]

\* LineWrapper.nextSection: the call state behind it and what it returns
nextSection(C) ==
  IF C.lw.column + 1 > C.lw.columns
    THEN IF C.lw.height # Null
           THEN [ C |-> [C EXCEPT !.lw.column = @ + 1, !.noRoom = TRUE],
                  ok |-> FALSE ]
           ELSE LET S1 == addPage(C.S)
                IN [ C |-> [C EXCEPT !.S = [S1 EXCEPT !.x = C.lw.startX],
                                     !.lw.column = 1,
                                     !.lw.startY = Margin,
                                     !.lw.maxY = PageHeight - Margin],
                     ok |-> TRUE ]
    ELSE [ C |-> [C EXCEPT !.lw.column = @ + 1,
                           !.S.x = @ + C.lw.lineWidth + C.lw.columnGap,
                           !.S.y = C.lw.startY],
           ok |-> TRUE ]

RECURSIVE ShrinkBuffer(_, _)
\* the loop that removes characters from the buffer until the ellipsis fits
ShrinkBuffer(lw, buffer) ==
  IF buffer # << >> /\ wordWidth(lw, buffer \o lw.ellipsis) > lw.lineWidth
    THEN ShrinkBuffer(lw, TrimEnd(Slice(buffer, 0, -1)))
    ELSE buffer

\* the ellipsis block appending the ellipsis without measuring it
ellipsisBlock_noFit(C) ==
  LET b1 == TrimEnd(C.buffer) \o C.lw.ellipsis
  IN [C EXCEPT !.buffer = b1, !.textWidth = wordWidth(C.lw, b1), !.ell = TRUE]

\* the ellipsis block of the callback of wrap
ellipsisBlock(C) ==
  LET b0 == ShrinkBuffer(C.lw, TrimEnd(C.buffer))
      b1 == IF wordWidth(C.lw, b0 \o C.lw.ellipsis) <= C.lw.lineWidth
              THEN b0 \o C.lw.ellipsis
              ELSE b0
  IN [C EXCEPT !.buffer = b1, !.textWidth = wordWidth(C.lw, b1), !.ell = TRUE]

\* the check behind emitLine in the callback: at the edge of the page the
\* text goes on in the next column or page; ok is what nextSection returned
edgeOfPage(C) ==
  IF C.S.y + LineHeight > C.lw.maxY
    THEN nextSection(C)
    ELSE [C |-> C, ok |-> TRUE]

\* the end of the callback that forgets the word that did not fit
afterLine_dropWord(ns, word, w, required) ==
  IF ~ns.ok
    THEN [ C |-> [ns.C EXCEPT !.wc = 0, !.buffer = << >>], cont |-> FALSE ]
    ELSE [ C |-> [ns.C EXCEPT !.lw.spaceLeft = ns.C.lw.lineWidth,
                              !.buffer = << >>, !.textWidth = 0, !.wc = 0],
           cont |-> TRUE ]

\* the end of the callback behind an emitted line: it returns false if
\* nextSection did, else it resets the space left and the buffer
afterLine(ns, word, w, required) ==
  IF ~ns.ok
    THEN [ C |-> [ns.C EXCEPT !.wc = 0, !.buffer = << >>], cont |-> FALSE ]
    ELSE IF required
      THEN [ C |-> [ns.C EXCEPT !.lw.spaceLeft = ns.C.lw.lineWidth,
                                !.buffer = << >>, !.textWidth = 0, !.wc = 0],
             cont |-> TRUE ]
      ELSE [ C |-> [ns.C EXCEPT !.lw.spaceLeft = ns.C.lw.lineWidth - w,
                                !.buffer = word, !.textWidth = w, !.wc = 1],
             cont |-> TRUE ]

\* the branch of the callback taken at a required break or at a word that
\* does not fit; cont is FALSE when the callback returns false
breakLine(C, word, w, required) ==
  LET over == w > C.lw.spaceLeft
      C1 == IF C.lw.height # Null /\ C.lw.ellipsis # NoEllipsis
               /\ C.S.y + LineHeight * 2 > C.lw.maxY
               /\ C.lw.column >= C.lw.columns
              THEN ellipsisBlock(C)
              ELSE C
      C2 == IF required
              THEN lastLine(IF over
                              THEN [emitLine(C1, "overflow", required) EXCEPT
                                      !.buffer = word, !.textWidth = w, !.wc = 1]
                              ELSE C1)
              ELSE C1
  IN afterLine(edgeOfPage(emitLine(C2, "break", required)), word, w, required)

\* the callback of wrap taking a word only if it leaves space behind it
onWord_strict(C, word, w, required, last) ==
  LET C0 == [C EXCEPT !.ell = FALSE,
                      !.S.words = Append(@, [word |-> word, w |-> w,
                                             required |-> required,
                                             last |-> last,
                                             lineWidth |-> C.lw.lineWidth,
                                             continuedX |-> C.lw.continuedX,
                                             spaceLeft |-> C.lw.spaceLeft,
                                             chopped |-> C.chopped,
                                             rest |-> C.rest])]
      C1 == IF last \in {"none", "required"}
              THEN LET F == firstLine(C0)
                   IN [F EXCEPT !.lw.spaceLeft = F.lw.lineWidth]
              ELSE C0
      C2 == IF w < C1.lw.spaceLeft
              THEN [C1 EXCEPT !.buffer = @ \o word, !.textWidth = @ + w,
                              !.wc = @ + 1]
              ELSE C1
  IN IF required \/ w >= C2.lw.spaceLeft
       THEN breakLine(C2, word, w, required)
       ELSE [ C |-> [C2 EXCEPT !.lw.spaceLeft = @ - w], cont |-> TRUE ]

\* the callback that wrap hands to eachWord; last is "none" for the first
\* word, else "required" or "optional" after the break before the word
onWord(C, word, w, required, last) ==
  LET C0 == [C EXCEPT !.ell = FALSE,
                      !.S.words = Append(@, [word |-> word, w |-> w,
                                             required |-> required,
                                             last |-> last,
                                             lineWidth |-> C.lw.lineWidth,
                                             continuedX |-> C.lw.continuedX,
                                             spaceLeft |-> C.lw.spaceLeft,
                                             chopped |-> C.chopped,
                                             rest |-> C.rest])]
      C1 == IF last \in {"none", "required"}
              THEN LET F == firstLine(C0)
                   IN [F EXCEPT !.lw.spaceLeft = F.lw.lineWidth]
              ELSE C0
      C2 == IF w <= C1.lw.spaceLeft
              THEN [C1 EXCEPT !.buffer = @ \o word, !.textWidth = @ + w,
                              !.wc = @ + 1]
              ELSE C1
  IN IF required \/ w > C2.lw.spaceLeft
       THEN breakLine(C2, word, w, required)
       ELSE [ C |-> [C2 EXCEPT !.lw.spaceLeft = @ - w], cont |-> TRUE ]

RECURSIVE fitPiece(_, _, _, _, _, _)
\* the loop of eachWord that shrinks or grows the piece after the guess
fitPiece(lw, word, l, w, mustShrink, mightGrow) ==
  IF mustShrink
    THEN LET w1 == wordWidth(lw, Slice(word, 0, l - 1))
         IN fitPiece(lw, word, l - 1, w1, w1 > lw.spaceLeft /\ l - 1 > 0, mightGrow)
  ELSE IF mightGrow
    THEN LET w1 == wordWidth(lw, Slice(word, 0, l + 1))
         IN fitPiece(lw, word, l + 1, w1, w1 > lw.spaceLeft /\ l + 1 > 0,
                     w1 <= lw.spaceLeft /\ l + 1 < Len(word))
  ELSE [l |-> l, w |-> w]

\* the number of characters of the word that eachWord cuts off for the space
\* that is left, and their width
piece(lw, word, w) ==
  IF w > lw.spaceLeft
    THEN LET l == CeilDiv(lw.spaceLeft, w, Len(word))
             w1 == wordWidth(lw, Slice(word, 0, l))
         IN fitPiece(lw, word, l, w1, w1 > lw.spaceLeft /\ l > 0,
                     w1 <= lw.spaceLeft /\ l < Len(word))
    ELSE fitPiece(lw, word, Len(word), w, FALSE, FALSE)

RECURSIVE chopWord(_, _, _, _, _)
RECURSIVE chopNext(_, _, _)
\* the loop of eachWord that chops up a word longer than the whole line
chopWord(C, word, w, required, lbk) ==
  IF word = << >> THEN [C |-> C, cont |-> TRUE]
  ELSE LET p == piece(C.lw, word, w)
       IN chopNext(onWord([C EXCEPT !.chopped = TRUE,
                                     !.rest = Slice(word, p.l, Len(word))],
                          Slice(word, 0, p.l), p.w,
                          required \/ p.l < Len(word), lbk),
                   Slice(word, p.l, Len(word)), required)

\* the end of one round of that loop: the remaining piece of the word is
\* measured and the loop goes on unless the callback returned false
chopNext(r, rest, required) ==
  IF r.cont
    THEN chopWord(r.C, rest, wordWidth(r.C.lw, rest), required, "optional")
    ELSE r

RECURSIVE eachWordFrom(_, _, _, _)
RECURSIVE eachWordNext(_, _, _, _)
\* LineWrapper.eachWord from the i-th break on, with the callback of wrap
eachWordFrom(C, text, bks, i) ==
  IF i > Len(bks) THEN C
  ELSE LET from == IF i = 1 THEN 0 ELSE bks[i - 1].position
           word == Slice(text, from, bks[i].position)
           w == wordWidth(C.lw, word)
           last == IF i = 1 THEN "none"
                   ELSE IF bks[i - 1].required THEN "required" ELSE "optional"
       IN eachWordNext(IF w > C.lw.lineWidth + C.lw.continuedX
                         THEN chopWord(C, word, w, bks[i].required, last)
                         ELSE onWord([C EXCEPT !.chopped = FALSE, !.rest = << >>],
                                     word, w, bks[i].required, last),
                       text, bks, i)

\* the end of one round of the loop of eachWord: it goes on with the next
\* break unless the callback returned false
eachWordNext(r, text, bks, i) ==
  IF r.cont THEN eachWordFrom(r.C, text, bks, i + 1) ELSE r.C

\* the check at the start of wrap that the first line is on the page; what
\* nextSection returns is dropped
startCheck(C) ==
  IF C.S.y > C.lw.maxY \/ C.S.y + LineHeight > C.lw.maxY
    THEN nextSection(C).C
    ELSE C

\* the local y of wrap, read behind that check
wrapLocals(C) ==
  [C EXCEPT !.y = C.S.y]

\* the tail of wrap: the words left in the buffer are the last line
wrapTail(C) ==
  IF C.wc > 0
    THEN emitLine(lastLine([C EXCEPT !.ell = FALSE]), "tail", FALSE)
    ELSE C

\* the end of wrap: a continued call saves the x position for the next
\* fragment and resets y, any other call resets x
wrapEnd(C, continued) ==
  IF continued
    THEN [ S |-> [C.S EXCEPT !.y = C.y],
           lw |-> [C.lw EXCEPT !.continuedX =
                     (IF C.lc > 1 THEN 0 ELSE @)
                       + (IF C.o.textWidth = Null THEN 0 ELSE C.o.textWidth)],
           o |-> C.o, lc |-> C.lc ]
    ELSE [ S |-> [C.S EXCEPT !.x = C.lw.startX],
           lw |-> C.lw, o |-> C.o, lc |-> C.lc ]

\* LineWrapper.wrap: the document, the wrapper and the options behind it
wrap(S, lw, options, text) ==
  LET lw1 == [lw EXCEPT !.indent = options.indent, !.ellipsis = options.ellipsis]
      C0 == Call([S EXCEPT !.lines = << >>, !.words = << >>], lw1, options)
  IN wrapEnd(wrapTail(eachWordFrom(wrapLocals(startCheck(C0)),
                                   text, Breaks(text), 1)),
             options.continued)

\* the end of _text: a continued call keeps the wrapper and its options
_textEnd(r, text, continued) ==
  [r.S EXCEPT !._wrapper = IF continued THEN << r.lw >> ELSE << >>,
              !._textOptions = IF continued THEN << r.o >> ELSE << >>,
              !.wrapper = << r.lw >>,
              !.hist.text = text]

\* TextMixin._text with the width option set
_text(S, text, continued) ==
  LET options == _initOptions(S, continued)
  IN _textEnd(wrap(S,
                   IF S._wrapper # << >> THEN S._wrapper[1]
                                         ELSE NewLineWrapper(S, options),
                   options, text),
              text, continued)

\* options.height = Infinity
Infinity == 100000

\* the wrapper that _text uses for heightOfString: the wrapper of the open
\* continued run, with the listener it has, or a new one whose listener
\* only advances y
heightWrapper(S, options) ==
  IF S._wrapper # << >>
    THEN S._wrapper[1]
    ELSE [NewLineWrapper(S, options) EXCEPT !.line = "height"]

\* the end of heightOfString: x and y are set back
heightEnd(S, S1) == [S1 EXCEPT !.x = S.x, !.y = S.y]

\* heightOfString with the options object it has built
heightOfStringWith(S, options, text) ==
  heightEnd(S, _textEnd(wrap(S, heightWrapper(S, options), options, text),
                        text, options.continued))

\* TextMixin.heightOfString(text, options)
heightOfString(S, text) ==
  heightOfStringWith(S, [_initOptions(S, FALSE) EXCEPT !.height = Infinity], text)

\* the texts the caller prints
Texts ==
  { << >>,
    << "a" >>,
    << "W" >>,
    << "a", "\n" >>,
    << "a", " ", "a" >>,
    << "a", "a", " ", "a", "a" >>,
    << "a", "\n", "a" >>,
    << "a", "a", "a", "a" >>,
    << "a", "a", " ", "a", " ", "W" >>,
    << "a", "a", "a", " ", "a", "a", "a", "a" >> }

\* the options the caller passes with them
Style(width, indent, align, height, ellipsis, columns) ==
  [ width |-> width, indent |-> indent, align |-> align, height |-> height,
    ellipsis |-> ellipsis, columns |-> columns ]

PlainStyle == Style(100, 0, "left", Null, NoEllipsis, 0)

Styles ==
  { PlainStyle,
    Style(30, 0, "justify", Null, NoEllipsis, 0),
    Style(30, 10, "left", Null, NoEllipsis, 0),
    Style(78, 0, "justify", Null, NoEllipsis, 2),
    Style(30, 0, "justify", 10, Ellipsis, 0),
    Style(30, 10, "left", 10, Ellipsis, 0),
    Style(30, 0, "left", 5, NoEllipsis, 0),
    Style(78, 0, "left", 10, Ellipsis, 2) }

\* ------------------------------------------------------------------- Init
\* the PDFDocument constructor
Construct(o) ==
  LET E == [ objs |-> << >>, _offsets |-> << >>, _waiting |-> 0,
             _ended |-> FALSE, _offset |-> 0, sink |-> << >>, closed |-> 0,
             timers |-> << >>, _pageBuffer |-> << >>, _pageBufferStart |-> 0,
             page |-> NoPage, Pages |-> [Count |-> 0, Kids |-> << >>],
             font |-> [dictionary |-> NoRef, embedded |-> FALSE],
             _info |-> NoRef, images |-> << >>, opts |-> o,
             named |-> [Pages |-> NoRef, _root |-> NoRef, outline |-> NoRef],
             hist |-> [ops |-> 0, docEnds |-> 0, thrown |-> << >>,
                       text |-> << >>],
             x |-> 0, y |-> 0, _wrapper |-> << >>, _textOptions |-> << >>,
             style |-> PlainStyle, wrapper |-> << >>, lines |-> << >>,
             words |-> << >> ]
      S1 == [ref(E, "pages", FALSE) EXCEPT !.named.Pages = NextId(E)]
      S2 == [ref(S1, "catalog", FALSE) EXCEPT !.named._root = NextId(S1)]
      S3 == [ref(S2, "outline", FALSE) EXCEPT !.named.outline = NextId(S2)]
      S4 == WriteSeq(S3, << Chunk("header", 0, 0, 9), Chunk("header", 0, 0, 6) >>)
  IN IF o.autoFirstPage THEN addPage(S4) ELSE S4

Options == [compress : BOOLEAN, bufferPages : BOOLEAN, autoFirstPage : BOOLEAN]

Init ==
  \E o \in Options :
    LET S == Construct(o) IN
    /\ objs = S.objs
    /\ _offsets = S._offsets
    /\ _waiting = S._waiting
    /\ _ended = S._ended
    /\ _offset = S._offset
    /\ sink = S.sink
    /\ closed = S.closed
    /\ timers = S.timers
    /\ _pageBuffer = S._pageBuffer
    /\ _pageBufferStart = S._pageBufferStart
    /\ page = S.page
    /\ Pages = S.Pages
    /\ font = S.font
    /\ _info = S._info
    /\ images = S.images
    /\ opts = S.opts
    /\ named = S.named
    /\ hist = S.hist
    /\ x = S.x
    /\ y = S.y
    /\ _wrapper = S._wrapper
    /\ _textOptions = S._textOptions
    /\ style = S.style
    /\ wrapper = S.wrapper
    /\ lines = S.lines
    /\ words = S.words
    /\ inTurn = TRUE

\* ---------------------------------------------------------------- actions
\* ids still to be handed out to the soft masks of the images in flight
Reserved == Len(images)

CanAlloc(k) == Len(objs) + Reserved + k <= MaxObjs

UserRefs == { i \in 1..Len(objs) : objs[i].kind = "user" }

\* a synchronous unit of caller code starts
BeginTurn ==
  /\ ~inTurn
  /\ inTurn' = TRUE
  /\ UNCHANGED << objs, _offsets, _waiting, _ended, _offset, sink, closed,
                  timers, _pageBuffer, _pageBufferStart, page, Pages, font,
                  _info, images, opts, named, hist, x, y, _wrapper,
                  _textOptions, style, wrapper, lines, words >>

\* the caller code returns to the event loop
EndTurn ==
  /\ inTurn
  /\ inTurn' = FALSE
  /\ UNCHANGED << objs, _offsets, _waiting, _ended, _offset, sink, closed,
                  timers, _pageBuffer, _pageBufferStart, page, Pages, font,
                  _info, images, opts, named, hist, x, y, _wrapper,
                  _textOptions, style, wrapper, lines, words >>

\* doc.ref(data), with or without a Filter entry in data
Ref ==
  /\ inTurn /\ hist.ops < MaxOps /\ CanAlloc(1)
  /\ \E filter \in BOOLEAN :
        Commit([ref(St, "user", filter) EXCEPT !.hist.ops = @ + 1])
  /\ UNCHANGED inTurn

\* ref.write(chunk)
RefWrite ==
  /\ inTurn /\ hist.ops < MaxOps
  /\ \E id \in UserRefs, n \in ChunkSizes :
        Commit([write(St, id, n) EXCEPT !.hist.ops = @ + 1])
  /\ UNCHANGED inTurn

\* ref.end() and ref.end(chunk)
RefEnd ==
  /\ inTurn /\ hist.ops < MaxOps
  /\ \E id \in UserRefs, n \in {0} \cup ChunkSizes :
        Commit([end(St, id, n) EXCEPT !.hist.ops = @ + 1])
  /\ UNCHANGED inTurn

\* doc.addPage()
AddPage ==
  /\ inTurn /\ hist.ops < MaxOps /\ CanAlloc(3)
  /\ Commit([addPage(St) EXCEPT !.hist.ops = @ + 1])
  /\ UNCHANGED inTurn

\* doc.flushPages()
FlushPages ==
  /\ inTurn /\ hist.ops < MaxOps /\ _pageBuffer # << >>
  /\ Commit([flushPages(St) EXCEPT !.hist.ops = @ + 1])
  /\ UNCHANGED inTurn

\* doc.switchToPage(n), for the pages of the buffer and for the two
\* numbers next to them; a call that throws counts as an operation
SwitchToPage ==
  /\ inTurn
  /\ \E n \in (_pageBufferStart - 1) .. (_pageBufferStart + Len(_pageBuffer)) :
        LET S == switchToPage(St, n) IN
        IF S.hist.thrown # hist.thrown
          THEN /\ hist.ops < MaxOps
               /\ Commit([S EXCEPT !.hist.ops = @ + 1])
          ELSE /\ S.page # page
               /\ Commit(S)
  /\ UNCHANGED inTurn

\* doc.addContent(data)
AddContent ==
  /\ inTurn /\ hist.ops < MaxOps /\ page # NoPage
  /\ \E n \in ChunkSizes :
        Commit([write(St, page.content, n) EXCEPT !.hist.ops = @ + 1])
  /\ UNCHANGED inTurn

\* PDFFont.ref, called by the first text fragment that uses the font
FontRef ==
  /\ inTurn /\ hist.ops < MaxOps /\ CanAlloc(1)
  /\ page # NoPage /\ font.dictionary = NoRef
  /\ Commit([ref(St, "font", FALSE) EXCEPT !.font.dictionary = NextId(St),
                                            !.hist.ops = @ + 1])
  /\ UNCHANGED inTurn

\* PNGImage.embed(doc) of a PNG with an alpha channel: it allocates the
\* image object and starts splitAlphaChannel
ImageEmbed ==
  /\ inTurn /\ hist.ops < MaxOps /\ Len(images) < MaxImages /\ CanAlloc(2)
  /\ Commit([ref(St, "image", TRUE) EXCEPT
               !.images = Append(@, [obj |-> NextId(St), stage |-> "decode", done |-> 0]),
               !.hist.ops = @ + 1])
  /\ UNCHANGED inTurn

\* a callback of splitAlphaChannel: decodePixels, then the two
\* zlib.deflate callbacks, the second of which calls PNGImage.finalize
ImageCallback ==
  /\ ~inTurn
  /\ \E i \in 1..Len(images) :
       LET im == images[i]
           rest == SubSeq(images, 1, i - 1) \o SubSeq(images, i + 1, Len(images))
       IN  \/ /\ im.stage = "decode"
              /\ Commit([St EXCEPT !.images[i].stage = "deflate"])
           \/ /\ im.stage = "deflate" /\ im.done = 0
              /\ Commit([St EXCEPT !.images[i].done = 1])
           \/ /\ im.stage = "deflate" /\ im.done = 1
              /\ \E n \in ChunkSizes :
                    \E S \in { ImageFinalize([St EXCEPT !.images = rest], im.obj, n) } :
                      Commit(S)
  /\ UNCHANGED inTurn

\* doc.end()
DocEnd ==
  /\ inTurn /\ hist.ops < MaxOps /\ hist.docEnds < MaxDocEnds /\ CanAlloc(1)
  /\ Commit([DocumentEnd(St) EXCEPT !.hist.docEnds = @ + 1, !.hist.ops = @ + 1])
  /\ UNCHANGED inTurn

\* the event loop runs the oldest finalize callback
RunTimer ==
  /\ ~inTurn /\ timers # << >>
  /\ LET id == Head(timers)
         o == objs[id]
     IN \E z \in (IF o.compress /\ o.chunks > 0 THEN DeflateSizes(o.bytes) ELSE {0}) :
          \E S \in { FinalizeBody([St EXCEPT !.timers = Tail(@)], id, z) } :
            Commit(S)
  /\ UNCHANGED inTurn

Next ==
  \/ BeginTurn \/ EndTurn
  \/ Ref \/ RefWrite \/ RefEnd
  \/ AddPage \/ FlushPages \/ SwitchToPage \/ AddContent
  \/ FontRef \/ ImageEmbed \/ ImageCallback
  \/ DocEnd \/ RunTimer

Spec == Init /\ [][Next]_vars

\* ------------------------------------------------- the text specification
\* the lineWidth that the constructor of LineWrapper computes for a style
ColumnWidth(s) ==
  LET columns == IF s.columns = 0 THEN 1 ELSE s.columns
  IN (s.width - 18 * (columns - 1)) \div columns

\* doc.text(text, options) with the options of the style, continued or not.
\* Without a height, eachWord never returns for a glyph that is wider than a
\* whole line (it adds pages without end): the caller prints no such text.
Text ==
  /\ inTurn /\ hist.ops < MaxOps /\ page # NoPage
  /\ \E t \in Texts, continued \in BOOLEAN :
        /\ style.height # Null
             \/ \A i \in 1..Len(t) : GlyphWidth(t[i]) <= ColumnWidth(style)
        /\ \E S \in { _text(St, t, continued) } :
              /\ Len(S.objs) <= MaxObjs
              /\ Commit([S EXCEPT !.hist.ops = @ + 1])
  /\ UNCHANGED inTurn

\* doc.heightOfString(text, options); lines, words, wrapper and hist.text
\* keep the record of the last text() call
HeightOfString ==
  /\ inTurn /\ hist.ops < MaxOps /\ page # NoPage
  /\ \E t \in Texts :
        /\ \A i \in 1..Len(t) : GlyphWidth(t[i]) <= ColumnWidth(style)
        /\ \E S \in { heightOfString(St, t) } :
              /\ Len(S.objs) <= MaxObjs
              /\ Commit([S EXCEPT !.hist.ops = @ + 1, !.hist.text = hist.text,
                                  !.lines = lines, !.words = words,
                                  !.wrapper = wrapper])
  /\ UNCHANGED inTurn

\* a document without compression, printed with one of the styles
WrapInit ==
  \E o \in { p \in Options : ~p.compress }, s \in Styles :
    LET S == [Construct(o) EXCEPT !.style = s] IN
    /\ objs = S.objs
    /\ _offsets = S._offsets
    /\ _waiting = S._waiting
    /\ _ended = S._ended
    /\ _offset = S._offset
    /\ sink = S.sink
    /\ closed = S.closed
    /\ timers = S.timers
    /\ _pageBuffer = S._pageBuffer
    /\ _pageBufferStart = S._pageBufferStart
    /\ page = S.page
    /\ Pages = S.Pages
    /\ font = S.font
    /\ _info = S._info
    /\ images = S.images
    /\ opts = S.opts
    /\ named = S.named
    /\ hist = S.hist
    /\ x = S.x
    /\ y = S.y
    /\ _wrapper = S._wrapper
    /\ _textOptions = S._textOptions
    /\ style = S.style
    /\ wrapper = S.wrapper
    /\ lines = S.lines
    /\ words = S.words
    /\ inTurn = TRUE

WrapNext == Text \/ HeightOfString \/ AddPage \/ FlushPages \/ SwitchToPage

WrapSpec == WrapInit /\ [][WrapNext]_vars

\* ------------------------------------------ the specification with fairness
\* doc.annotate(x, y, w, h, options) on the current page
Annotate ==
  /\ inTurn /\ hist.ops < MaxOps /\ CanAlloc(1) /\ page # NoPage
  /\ Commit([annotate(St) EXCEPT !.hist.ops = @ + 1])
  /\ UNCHANGED inTurn

\* a caller that builds the document with pages, text, annotations and
\* images and then ends it; the event loop runs every finalize callback and
\* every callback of the image decoder that is waiting, and the caller's
\* code returns to the event loop
LiveNext ==
  \/ BeginTurn \/ EndTurn
  \/ (hist.docEnds = 0 /\ (AddPage \/ Text \/ FontRef \/ Annotate \/ ImageEmbed))
  \/ DocEnd
  \/ RunTimer \/ ImageCallback

\* a RunTimer step as the timer queue shows it: the oldest callback leaves
\* the queue (no other step of LiveNext shortens the queue from the front)
TimerFires ==
  /\ ~inTurn /\ timers # << >>
  /\ timers' = Tail(timers)

\* an ImageCallback step as the list of pending images shows it
ImageCallbackFires ==
  /\ ~inTurn
  /\ \E i \in 1..Len(images) :
       \/ /\ images[i].stage = "decode"
          /\ images' = [images EXCEPT ![i].stage = "deflate"]
       \/ /\ images[i].stage = "deflate" /\ images[i].done = 0
          /\ images' = [images EXCEPT ![i].done = 1]
       \/ /\ images[i].stage = "deflate" /\ images[i].done = 1
          /\ images' = SubSeq(images, 1, i - 1) \o SubSeq(images, i + 1, Len(images))

\* the caller returns to the event loop, and the event loop runs every
\* callback that stays due: setTimeout(0) callbacks and the image callbacks
LiveSpec ==
  /\ Init /\ [][LiveNext]_vars
  /\ WF_vars(EndTurn) /\ SF_timers(TimerFires) /\ SF_images(ImageCallbackFires)

\* ------------------------------------------------- reading the output back
Max(s) == CHOOSE m \in s : \A e \in s : e <= m

\* the chunks that are the header '<id> 0 obj' of object i
Headers(i) == { j \in 1..Len(sink) : sink[j].k = "obj" /\ sink[j].id = i }

HeadersBefore(i, xr) == { j \in Headers(i) : j < xr }

\* the chunks that start a cross-reference section
Xrefs == { xr \in 1..Len(sink) : sink[xr].k = "xref" }

RECURSIVE EmittedIn(_, _, _)
\* the uncompressed bytes of object i among the first j chunks of out
EmittedIn(out, i, j) ==
  IF j = 0 THEN 0
  ELSE (IF out[j].k = "data" /\ out[j].id = i THEN out[j].v ELSE 0)
         + EmittedIn(out, i, j - 1)

\* the uncompressed bytes of object i that reached the output
Emitted(out, i) == EmittedIn(out, i, Len(out))

\* ------------------------------------------------------------------ claims
\* C1: the running byte counter is the sum of the lengths of all chunks
\* pushed so far, and a step that finalizes an object records for it (in the
\* object and in the offsets array) the number of bytes that precede the
\* header the step writes; no other step changes a recorded offset.
C1_OffsetIsHeaderPosition ==
  [][ /\ _offset' = SumLen(sink')
      /\ \A i \in 1..Len(objs) :
           IF objs'[i].fin # objs[i].fin
             THEN LET H == { j \in (Len(sink) + 1)..Len(sink') :
                               sink'[j].k = "obj" /\ sink'[j].id = i }
                  IN /\ H # {}
                     /\ objs'[i].offset = BytesOf(sink', Max(H) - 1)
                     /\ _offsets'[i] = objs'[i].offset
             ELSE /\ objs'[i].offset = objs[i].offset
                  /\ _offsets'[i] = _offsets[i] ]_vars

\* C1 witness: an object was finalized behind a stream of another object
C1_Witness ==
  \E i \in 1..Len(objs) :
    /\ objs[i].fin > 0
    /\ objs[i].offset > 15
    /\ objs[i].offset = BytesOf(sink, Max(Headers(i)) - 1)
    /\ \E j \in 1..Len(sink) :
         sink[j].k = "data" /\ sink[j].n # sink[j].v /\ j < Max(Headers(i))

\* C2: line k of every cross-reference table a step emits holds the
\* position of the latest header of the object with id k in the output (the
\* placeholder if the object has none), whatever the order in which the
\* objects were emitted.
C2_XrefOrderedById ==
  [][ \A xr \in (Len(sink) + 1)..Len(sink') :
        sink'[xr].k = "xref" =>
          \A k \in 1..(sink'[xr + 1].v - 1) :
            LET H == { j \in 1..(xr - 1) : sink'[j].k = "obj" /\ sink'[j].id = k }
            IN /\ sink'[xr + 2 + k].k = "line"
               /\ sink'[xr + 2 + k].v =
                    (IF H = {} THEN Null ELSE BytesOf(sink', Max(H) - 1)) ]_vars

\* C2 witness: a table was emitted after objects were finalized in an order
\* that is not the order of their ids
C2_Witness ==
  \E xr \in Xrefs :
    /\ \A k \in 1..(sink[xr + 1].v - 1) : sink[xr + 2 + k].v # Null
    /\ \E i1, i2 \in 1..Len(objs) :
         /\ i1 > i2 /\ i2 > 1
         /\ HeadersBefore(i1, xr) # {} /\ HeadersBefore(i2, xr) # {}
         /\ Max(HeadersBefore(i1, xr)) < Max(HeadersBefore(i2, xr))

\* C3: the document is finalized only by a step after which end() has been
\* called and the pending counter is zero, and that step is either the end()
\* call or the step that brought the counter to zero.
C3_FinalizeNeedsEndAndZero ==
  [][ closed' # closed =>
        /\ hist'.docEnds >= 1
        /\ _waiting' = 0
        /\ (hist'.docEnds # hist.docEnds \/ _waiting # 0) ]_vars

\* C3 witness: the last finalize callback closed the document
C3_Witness == closed = 1 /\ ~inTurn /\ hist.docEnds = 1 /\ _waiting = 0

\* C4: for a compressed stream the Length printed in the dictionary is the
\* number of bytes between 'stream' and 'endstream'.
C4_LengthIsCompressedSize ==
  \A j \in 1..Len(sink) :
    (sink[j].k = "data" /\ objs[sink[j].id].compress) =>
      /\ sink[j - 2].k = "dict"
      /\ sink[j - 2].v = sink[j].n

\* C5: the step that finalizes the document ends the output with a table of
\* N + 1 entries for the N objects allocated by then: the declared count and
\* the trailer Size are N + 1, and the free line and the N lines that follow
\* it have 20 bytes each.
C5_XrefComplete ==
  [][ closed' # closed =>
        LET N == Len(objs')
            xr == Len(sink') - N - 7
        IN /\ xr >= 1
           /\ sink'[xr].k = "xref"
           /\ sink'[xr + 1].k = "subsection" /\ sink'[xr + 1].v = N + 1
           /\ sink'[xr + 2].k = "free" /\ sink'[xr + 2].n = 20
           /\ \A k \in 1..N :
                sink'[xr + 2 + k].k = "line" /\ sink'[xr + 2 + k].n = 20
           /\ sink'[xr + N + 3].k = "trailer"
           /\ sink'[xr + N + 4].k = "trailerdict" /\ sink'[xr + N + 4].v = N + 1
           /\ sink'[Len(sink')].k = "eof" ]_vars

\* C5 witness: the document was finalized with a soft mask that was
\* allocated after end() had allocated the info object
C5_Witness ==
  /\ closed = 1
  /\ \E i \in 1..Len(objs) : objs[i].kind = "smask" /\ i > _info /\ objs[i].fin = 1

\* C6 as stated: no object is serialized while caller code runs.
C6_NeverSerializedInCall ==
  [][ \A i \in 1..Len(objs) : objs'[i].fin # objs[i].fin => ~inTurn ]_vars

\* C6 amended: every object but the page tree is serialized by a callback
\* that runs between two synchronous units, and the callback emits every
\* byte written to the object before it ran.
C6_DeferredExceptPageTree ==
  [][ \A i \in 1..Len(objs) :
        (objs[i].kind # "pages" /\ objs'[i].fin # objs[i].fin) =>
          /\ ~inTurn
          /\ objs'[i].bytes = 0
          /\ Emitted(sink', i) = objs[i].uncompressedLength ]_vars

\* C6 witness: a write issued after end() while the callback was pending
\* reached the output
C6_Witness ==
  \E i \in 1..Len(objs) :
    /\ objs[i].kind # "pages"
    /\ objs[i].afterEnd /\ ~objs[i].late
    /\ objs[i].fin = 1 /\ objs[i].bytes = 0
    /\ Emitted(sink, i) = objs[i].uncompressedLength
    /\ Emitted(sink, i) > 0

\* C7: no chunk is appended to the content stream of a page after the
\* finalize of that stream has run.
C7_NoWriteAfterFinalize ==
  \A i \in 1..Len(objs) : objs[i].kind = "content" => ~objs[i].late

\* C8: the finalize body of an object runs at most once.
C8_FinalizedAtMostOnce == \A i \in 1..Len(objs) : objs[i].fin <= 1

\* C9: the pending counter is the number of allocated objects whose finalize
\* has not run.
C9_WaitingCountsPending ==
  _waiting = Cardinality({ i \in 1..Len(objs) : objs[i].fin = 0 })

\* C10: no line of a cross-reference table is written from the placeholder
\* of an object that was never finalized.
C10_NoUnsetXrefLine ==
  \A j \in 1..Len(sink) : sink[j].k = "line" => sink[j].v # Null

\* the number of times end() was called on object i: the finalize callbacks
\* that ran and those that wait
Ends(os, ts, i) ==
  os[i].fin + Cardinality({ t \in 1..Len(ts) : ts[t] = i })

\* the number of pages added so far: the page dictionaries allocated
PagesAdded(os) == Cardinality({ i \in 1..Len(os) : os[i].kind = "page" })

\* C11: switchToPage(n) with n outside the buffered window throws an error
\* that names n and the range start to start + count - 1 and leaves the
\* current page, the page buffer and the window start as they were; with n
\* inside the window it makes the page at buffer position n - start the
\* current page.
C11_SwitchToPage ==
  /\ [](LET r == bufferedPageRange(St) IN
        \A n \in (r.start - 1)..(r.start + r.count) :
          LET S == switchToPage(St, n) IN
          IF n >= r.start /\ n < r.start + r.count
            THEN S = [St EXCEPT !.page = _pageBuffer[n - r.start + 1]]
            ELSE S = [St EXCEPT !.hist.thrown =
                        << [n |-> n, from |-> r.start,
                            to |-> r.start + r.count - 1] >>])
  /\ [][ SwitchToPage =>
           /\ _pageBuffer' = _pageBuffer
           /\ _pageBufferStart' = _pageBufferStart
           /\ IF hist'.thrown # hist.thrown
                THEN /\ page' = page
                     /\ hist'.thrown[1].from = _pageBufferStart
                     /\ hist'.thrown[1].to = _pageBufferStart + Len(_pageBuffer) - 1
                     /\ hist'.thrown[1].n \notin
                          hist'.thrown[1].from .. hist'.thrown[1].to
                ELSE \E k \in 1..Len(_pageBuffer) : page' = _pageBuffer[k] ]_vars

\* C11 witness: with two pages buffered the caller went back to the first
\* one, and a call with the number behind the window threw
C11_Witness ==
  /\ Len(_pageBuffer) = 2
  /\ page = _pageBuffer[1]
  /\ hist.thrown # << >>
  /\ hist.thrown[1].n = _pageBufferStart + 2
  /\ hist.thrown[1].to = _pageBufferStart + 1

\* C12: after every step the start of the buffered window plus its count is
\* the number of pages added so far, which is the Count of the page tree and
\* the length of its Kids; flushPages leaves a count of 0 and moves the start
\* forward by the count it found.
C12_WindowCountsPages ==
  /\ [](/\ bufferedPageRange(St).start + bufferedPageRange(St).count
             = PagesAdded(objs)
        /\ PagesAdded(objs) = Pages.Count
        /\ Pages.Count = Len(Pages.Kids))
  /\ [][ FlushPages =>
           /\ Len(_pageBuffer') = 0
           /\ _pageBufferStart' = _pageBufferStart + Len(_pageBuffer) ]_vars

\* C12 witness: a text ran over the end of a page, and the page it added is
\* the only one in the window
C12_Witness ==
  /\ Len(lines) >= 2
  /\ lines[Len(lines)].pages = lines[1].pages + 1
  /\ _pageBufferStart >= 1
  /\ Len(_pageBuffer) = 1
  /\ Pages.Count = _pageBufferStart + 1

\* C13: without bufferPages, a step that adds a page leaves exactly the new
\* page in the window, allocated behind every object there was, and every
\* page that was buffered has its dictionary, resources and content ended
\* once; no object of a page is ever ended twice.
C13_AddPageFlushesFirst ==
  /\ [](\A i \in 1..Len(objs) :
          objs[i].kind \in {"page", "resources", "content"} =>
            Ends(objs, timers, i) <= 1)
  /\ [][ (Pages'.Count # Pages.Count /\ ~opts.bufferPages) =>
           /\ _pageBuffer' = << page' >>
           /\ page'.content > Len(objs)
           /\ \A k \in 1..Len(_pageBuffer) :
                \A i \in { _pageBuffer[k].dictionary, _pageBuffer[k].resources,
                           _pageBuffer[k].content } :
                  /\ Ends(objs, timers, i) = 0
                  /\ Ends(objs', timers', i) = 1 ]_vars

\* C13 witness: the first page was ended by addPage and serialized, the
\* second page is in the window, and end() has flushed nothing twice
C13_Witness ==
  /\ ~opts.bufferPages
  /\ _pageBufferStart = 1
  /\ Len(_pageBuffer) = 1
  /\ \E i \in 1..Len(objs) :
       /\ objs[i].kind = "content" /\ objs[i].fin = 1
       /\ i < page.content

\* ---------------------------------------------- reading the line events back
RECURSIVE WordsBefore(_, _)
\* the number of words on the first k lines of a sequence of line events
WordsBefore(ls, k) ==
  IF k = 0 THEN 0 ELSE ls[k].wordCount + WordsBefore(ls, k - 1)

RECURSIVE ConcatWords(_, _, _)
\* the text of the words a..b of a sequence of words
ConcatWords(ws, a, b) ==
  IF a > b THEN << >> ELSE ws[a].word \o ConcatWords(ws, a + 1, b)

RECURSIVE WidthOfWords(_, _, _)
\* the sum of the widths of the words a..b of a sequence of words
WidthOfWords(ws, a, b) ==
  IF a > b THEN 0 ELSE ws[a].w + WidthOfWords(ws, a + 1, b)

\* the last text() call ran without the ellipsis block and without running
\* out of room, and each of its words fits on every line, indented or not
PlainCall ==
  /\ wrapper # << >> /\ words # << >>
  /\ \A k \in 1..Len(lines) : ~lines[k].ell /\ ~lines[k].noRoom
  /\ ~(wrapper[1].height # Null /\ wrapper[1].column > wrapper[1].columns)
  /\ \A j \in 1..Len(words) :
       words[j].w + Max2(style.indent, words[1].continuedX) <= ColumnWidth(style)

\* the words of the last call are those of the example: widths 30, 20 and
\* 90, optional breaks, line width 100, nothing carried over
ExampleCall ==
  /\ Len(words) = 3
  /\ words[1].w = 30 /\ words[2].w = 20 /\ words[3].w = 90
  /\ \A j \in 1..3 : ~words[j].required
  /\ words[1].lineWidth = 100 /\ words[1].continuedX = 0 /\ style.indent = 0

\* C14: wrap puts consecutive words on a line while each fits into the space
\* that is left and emits the line at the first word that does not fit or at
\* a mandatory break: every line holds a run of consecutive words with no
\* mandatory break inside, measures the sum of their widths and no more than
\* its line width, and is followed by a word that would not have fit unless
\* it ends at a mandatory break or is the last one; the words of the example
\* (30, 20 and 90 on a line of 100) come out as two lines, the first with
\* the first two words (width 50), the second with the third (width 90).
C14_GreedyPacking ==
  /\ PlainCall =>
       /\ WordsBefore(lines, Len(lines)) = Len(words)
       /\ \A k \in 1..Len(lines) :
            LET a == WordsBefore(lines, k - 1) + 1
                b == WordsBefore(lines, k)
            IN /\ a <= b
               /\ lines[k].text = ConcatWords(words, a, b)
               /\ lines[k].textWidth = WidthOfWords(words, a, b)
               /\ lines[k].textWidth <= lines[k].lineWidth
               /\ \A j \in a..(b - 1) : ~words[j].required
               /\ \/ words[b].required
                  \/ b = Len(words)
                  \/ lines[k].textWidth + words[b + 1].w > lines[k].lineWidth
  /\ ExampleCall =>
       /\ Len(lines) = 2
       /\ lines[1].text = words[1].word \o words[2].word
       /\ lines[1].textWidth = 50
       /\ lines[2].text = words[3].word
       /\ lines[2].textWidth = 90

\* C14 witness: the example was printed, and came out as two lines
C14_Witness ==
  /\ ExampleCall /\ PlainCall
  /\ Len(lines) = 2
  /\ lines[1].wordCount = 2 /\ lines[1].textWidth = 50
  /\ lines[2].wordCount = 1 /\ lines[2].textWidth = 90

\* the last text() call printed a single word that is wider than a whole
\* line, on a wrapper without a height
LongWordCall ==
  /\ wrapper # << >>
  /\ wrapper[1].height = Null
  /\ Len(Breaks(hist.text)) = 1
  /\ wordWidth(wrapper[1], hist.text) > ColumnWidth(style)

\* C15: for a single word wider than the line, every piece that eachWord
\* hands to the callback measures at most the line width, and the pieces in
\* order make up the word.
C15_PiecesFitAndRebuild ==
  LongWordCall =>
    /\ \A j \in 1..Len(words) : words[j].w <= ColumnWidth(style)
    /\ ConcatWords(words, 1, Len(words)) = hist.text

\* C16: a line emitted by a callback in which the ellipsis block ran either
\* ends with the ellipsis and measures at most the line width it is
\* delivered with, or holds no ellipsis at all.
C16_EllipsisFitsOrAbsent ==
  \A k \in 1..Len(lines) :
    lines[k].ell =>
      LET t == lines[k].text IN
      \/ /\ t # << >>
         /\ t[Len(t)] = "..."
         /\ wordWidth(wrapper[1], t) <= lines[k].lineWidth
      \/ \A i \in 1..Len(t) : t[i] # "..."

\* C16 witness: the ellipsis block cut characters off the buffer and the
\* line went out with the ellipsis at its end, as wide as the line
C16_Witness ==
  \E k \in 1..Len(lines) :
    /\ lines[k].ell
    /\ Len(lines[k].text) >= 2
    /\ lines[k].text[Len(lines[k].text)] = "..."
    /\ lines[k].textWidth = lines[k].lineWidth
    /\ lines[k].wordCount >= 1
    /\ Len(lines[k].text) - 1 < Len(TrimEnd(ConcatWords(words, 1, lines[k].wordCount)))

\* C17: no line event is delivered after nextSection returned false, and a
\* wrapper with a height adds no page between its lines; without a height
\* every line is in one
\* of the columns, and a page is added between two lines only behind the
\* last column, one page at a time, the next line being in column 1.
C17_NoRoomStopsWrap ==
  wrapper # << >> =>
    /\ \A k \in 1..Len(lines) : ~lines[k].noRoom
    /\ wrapper[1].height # Null =>
         \A k \in 1..Len(lines) : lines[k].pages = lines[1].pages
    /\ wrapper[1].height = Null =>
         /\ \A k \in 1..Len(lines) : lines[k].column \in 1..wrapper[1].columns
         /\ \A k \in 1..(Len(lines) - 1) :
              \/ lines[k + 1].pages = lines[k].pages
              \/ /\ lines[k + 1].pages = lines[k].pages + 1
                 /\ lines[k].column = wrapper[1].columns
                 /\ lines[k + 1].column = 1

\* C18: after a text() call that does not ask for continuation the carried
\* indent of its wrapper is 0.
C18_ContinuedXReset ==
  (wrapper # << >> /\ _wrapper = << >>) => wrapper[1].continuedX = 0

\* a line event that ends a paragraph as the claim has it: the line is ended
\* by a mandatory break, or it is the last line of the call
EndsParagraph(k) ==
  \/ lines[k].required /\ lines[k].at = "break"
  \/ k = Len(lines)

\* a line event that ends a paragraph: the line is ended by a mandatory
\* break, or it holds the end of the text
EndsText(k) ==
  \/ lines[k].required /\ lines[k].at = "break"
  \/ lines[k].at = "tail"

\* C19 as stated: with align 'justify' the lines ended by a mandatory break
\* and the final line of the call are delivered with 'left', every other
\* line with 'justify'.
C19_LastLineLeft ==
  style.align = "justify" =>
    \A k \in 1..Len(lines) :
      lines[k].align = (IF EndsParagraph(k) THEN "left" ELSE "justify")

\* C19 amended: with align 'justify' the lines ended by a mandatory break
\* and the line that holds the end of the text are delivered with 'left',
\* every other line with 'justify', also the line at which the height stops
\* the call; the option a continued call inherits is 'justify' again.
C19_LastLineOfTextLeft ==
  style.align = "justify" =>
    /\ \A k \in 1..Len(lines) :
         lines[k].align = (IF EndsText(k) THEN "left" ELSE "justify")
    /\ _textOptions # << >> => _textOptions[1].align = "justify"

\* C19 witness: a continued call delivered a first line with 'justify' and
\* its last line with 'left', and hands on 'justify'
C19_Witness ==
  /\ style.align = "justify"
  /\ Len(lines) >= 2
  /\ lines[1].align = "justify" /\ lines[1].text # << >>
  /\ lines[Len(lines)].align = "left" /\ lines[Len(lines)].at = "tail"
  /\ _textOptions # << >> /\ _textOptions[1].align = "justify"

\* C20: after a continued call the carried indent is the indent its line
\* started at plus the width of the line if it delivered one line, and the
\* width of its last line if it delivered more; nothing is carried over when
\* the text ends with a mandatory break.
C20_CarriedIndent ==
  (_wrapper # << >> /\ lines # << >>) =>
    LET n == Len(lines)
        t == hist.text
    IN IF t[Len(t)] = "\n"
         THEN _wrapper[1].continuedX = 0
         ELSE _wrapper[1].continuedX =
                (IF n = 1 THEN lines[1].indent ELSE 0) + lines[n].textWidth

\* where the k-th line of the last text() call was put, and for k = 0 where
\* the document was when the call began: the left edge of the column (x
\* without the indent of a first line), y, the column and the page count
Position(k) ==
  IF k = 0
    THEN [ edge |-> lines[1].start.x, y |-> lines[1].start.y,
           column |-> lines[1].start.column, pages |-> lines[1].start.pages ]
    ELSE [ edge |-> lines[k].x - (wrapper[1].lineWidth - lines[k].lineWidth),
           y |-> lines[k].y, column |-> lines[k].column,
           pages |-> lines[k].pages ]

\* nextSection moved the text to the next column of the page in front of
\* the k-th line
ColumnAdvance(k) ==
  /\ Position(k - 1).column < wrapper[1].columns
  /\ Position(k).column = Position(k - 1).column + 1
  /\ Position(k).pages = Position(k - 1).pages

\* C21 as stated: a line behind a column advance is lineWidth + columnGap
\* to the right of the place before it and at the top margin of the page.
C21_ColumnAdvanceToTopMargin ==
  \A k \in 1..Len(lines) :
    ColumnAdvance(k) =>
      /\ Position(k).edge = Position(k - 1).edge
                              + wrapper[1].lineWidth + wrapper[1].columnGap
      /\ Position(k).y = Margin

\* C21 amended: a line behind a column advance is lineWidth + columnGap to
\* the right of the place before it and at the startY of the wrapper, which
\* is the top margin once the call has added a page and the startY the
\* wrapper began the call with before that.
C21_ColumnAdvanceToStartY ==
  \A k \in 1..Len(lines) :
    ColumnAdvance(k) =>
      /\ Position(k).edge = Position(k - 1).edge
                              + wrapper[1].lineWidth + wrapper[1].columnGap
      /\ Position(k).y = lines[k].startY
      /\ lines[k].startY = (IF lines[k].pages > lines[k].start.pages
                              THEN Margin ELSE lines[k].start.startY)

\* C21 witness: a call that began below the top margin went on in the
\* second column at the y it began at
C21_Witness ==
  /\ lines # << >>
  /\ ColumnAdvance(1)
  /\ lines[1].start.y > Margin
  /\ lines[1].y = lines[1].start.y
  /\ lines[1].x = lines[1].start.x + wrapper[1].lineWidth + wrapper[1].columnGap

\* the last text() call began where its first line does not fit: y is past
\* the vertical limit of the wrapper, or one line height below y is
StartsAtLimit ==
  /\ lines # << >>
  /\ \/ lines[1].start.y > lines[1].start.maxY
     \/ lines[1].start.y + LineHeight > lines[1].start.maxY

\* C22: a call that begins where its first line does not fit advances to
\* another column or page in front of its first line, and the first line of
\* every call is emitted where it fits: one line height below its y is not
\* past the vertical limit.
C22_FirstLineFits ==
  lines # << >> =>
    /\ StartsAtLimit =>
          \/ Position(1).column # Position(0).column
          \/ Position(1).pages # Position(0).pages
    /\ ~lines[1].noRoom
    /\ lines[1].y + LineHeight <= lines[1].maxY

\* C23: every piece that eachWord cuts from an overlong word is the longest
\* prefix that fits: it measures at most the space left, and it is all that
\* remained of the word or one character more is wider than the space left.
C23_LongestPrefixThatFits ==
  \A j \in 1..Len(words) :
    words[j].chopped =>
      /\ words[j].w = wordWidth(wrapper[1], words[j].word)
      /\ words[j].w <= words[j].spaceLeft
      /\ \/ words[j].rest = << >>
         \/ wordWidth(wrapper[1], Append(words[j].word, words[j].rest[1]))
              > words[j].spaceLeft

\* C24: every round of the loop that chops an overlong word takes at least
\* one character off the word or is the last round: a piece behind which
\* the loop went on with the rest of the word is not empty.
C24_ChopMakesProgress ==
  \A j \in 1..(Len(words) - 1) :
    (words[j].chopped /\ words[j].rest # << >>) => words[j].word # << >>

\* C25: the block that ends the file is emitted at most once and the sink
\* is closed at most once, and the end-of-file marker is the last chunk
\* pushed to the sink.
C25_EofOnceAndLast ==
  /\ closed <= 1
  /\ Cardinality({ j \in 1..Len(sink) : sink[j].k = "xref" }) <= 1
  /\ \A j \in 1..Len(sink) : sink[j].k = "eof" => j = Len(sink)

C27_TextWidthWithinLineWidth ==
  \A k \in 1..Len(lines) : lines[k].textWidth <= lines[k].lineWidth

RECURSIVE ConcatLines(_, _, _)
\* the texts of the line events a..b, one after the other
ConcatLines(ls, a, b) ==
  IF a > b THEN << >> ELSE ls[a].text \o ConcatLines(ls, a + 1, b)

\* C28: without a height bound the texts of the line events of a text()
\* call, in order, make up the text that was passed in, and so do the words
\* that eachWord handed to the callback.
C28_LinesRebuildText ==
  style.height = Null =>
    /\ ConcatLines(lines, 1, Len(lines)) = hist.text
    /\ ConcatWords(words, 1, Len(words)) = hist.text

\* a text() call without a height bound that cut an overlong word and
\* went on to a further page rebuilt its text
C28_Witness ==
  /\ style.height = Null
  /\ Len(lines) >= 3
  /\ \E j \in 1..Len(words) : words[j].chopped
  /\ lines[1].pages < lines[Len(lines)].pages
  /\ ConcatLines(lines, 1, Len(lines)) = hist.text

\* the line event k went out with the ellipsis appended to its text
EllipsisAppended(k) ==
  /\ lines[k].ell
  /\ lines[k].text # << >>
  /\ lines[k].text[Len(lines[k].text)] = "..."

\* C29: a line to which wrap appended the ellipsis is the last line event of
\* the call, at an optional and at a required break, whether or not the
\* word that set it off fitted on the line.
C29_EllipsisLineIsLast ==
  \A k \in 1..Len(lines) : EllipsisAppended(k) => k = Len(lines)

\* C30: heightOfString has no effect on the document, also while a
\* continued run is open: no object is written or allocated, no page is
\* added, x and y are what they were, and so are the retained wrapper and
\* the retained options.
C30_HeightOfStringNoEffect ==
  [][HeightOfString =>
       /\ objs' = objs /\ sink' = sink
       /\ Pages' = Pages /\ page' = page /\ _pageBuffer' = _pageBuffer
       /\ x' = x /\ y' = y
       /\ _wrapper' = _wrapper /\ _textOptions' = _textOptions]_vars

====
